---- MODULE Spec2Model ----
(***************************************************************************)
(* A model of the caesar command-line program: the shift transform         *)
(* (crypt_char), its application to a string or to standard input          *)
(* (crypt_str, crypt_stream), the key parser (parse_positive_long) and     *)
(* main's option loop, for src/main.c; and the buffer-based crypt_str and  *)
(* main of the older variant src/unnamed/part_000.                         *)
(*                                                                         *)
(* C's int is 32 bits wide and long 64 bits (Linux, LP64).  A long is kept *)
(* as four 16-bit limbs, least significant first, in two's complement, so  *)
(* that narrowing a long to an int keeps exactly the low 32 bits.          *)
(***************************************************************************)
EXTENDS Integers, Sequences, FiniteSets, TLC

VARIABLES
    pc,          \* position of main
    charSigned,  \* whether plain char is signed on this build
    mode,        \* main's enum crypt_mode
    shift,       \* main's long shift (limbs)
    key,         \* what parse_positive_long returned for the mode option (limbs)
    keystr,      \* optarg of the mode option that was parsed
    nmode,       \* number of -d / -e options getopt has returned
    message,     \* argv[optind]: NoMsg (NULL) or a sequence of bytes 1..255
    stdin_data,  \* the bytes standard input holds
    nread,       \* number of bytes fgetc has returned
    in_char,     \* crypt_stream's int in_char
    idx,         \* crypt_str's loop index i
    puts,        \* bytes handed to fputc(_, stdout) by the core, in order
    out,         \* bytes standard output accepted
    rerr,        \* fgetc returned EOF because of a read error
    werr,        \* an fputc on stdout failed
    nfault,      \* number of I/O faults so far
    usage_called,\* usage() was entered
    status,      \* exit status, Running while the process runs
    crypted,     \* part_000: size of the calloc'ed buffer, NoBuf before calloc
    writes,      \* part_000: indices of out[] that crypt_str has stored to
    h_pc,        \* transform harness: position
    h_shift,     \* transform harness: the int shift s
    h_c,         \* transform harness: the char c
    h_enc,       \* transform harness: crypt_char(s, c)
    h_dec        \* transform harness: crypt_char(-s, crypt_char(s, c))

vars == <<pc, charSigned, mode, shift, key, keystr, nmode, message, stdin_data,
          nread, in_char, idx, puts, out, rerr, werr, nfault, usage_called,
          status, crypted, writes, h_pc, h_shift, h_c, h_enc, h_dec>>

----------------------------------------------------------------------------
(* Bounds of the model *)

\* the harness draws every shift in -MaxShift..MaxShift, and the int extremes
MaxShift == 27
\* longest message argument and longest standard input
MaxLen == 2
\* longest generated key string (over KeyAlphabet)
MaxKeyLen == 2
\* most I/O faults in one run
MaxFaults == 1

----------------------------------------------------------------------------
(* C arithmetic *)

ALPHABET_SIZE == 26

\* a % b of C for b > 0: the remainder has the sign of a
CRem(a, b) == IF a >= 0 \/ a % b = 0 THEN a % b ELSE (a % b) - b

LimbBase == 256 * 256
LimbHalf == 128 * 256
INT_MAX == (LimbHalf - 1) * LimbBase + (LimbBase - 1)
INT_MIN == (0 - LimbHalf) * LimbBase

\* int -> char and int -> unsigned char conversions
ToChar(x, sgn) == IF sgn THEN ((x + 128) % 256) - 128 ELSE x % 256
ToByte(x) == x % 256

\* long (limbs) -> int: the low 32 bits, two's complement
ToInt(l) == (IF l[2] >= LimbHalf THEN l[2] - LimbBase ELSE l[2]) * LimbBase + l[1]

\* int -> long: sign extension
FromInt(x) ==
    LET lo == x % LimbBase
        hi == ((x - lo) \div LimbBase) % LimbBase
        ext == IF x < 0 THEN LimbBase - 1 ELSE 0
    IN  <<lo, hi, ext, ext>>

RECURSIVE Inc(_, _)
Inc(l, i) ==
    IF i > Len(l) THEN l
    ELSE IF l[i] = LimbBase - 1 THEN Inc([l EXCEPT ![i] = 0], i + 1)
    ELSE [l EXCEPT ![i] = l[i] + 1]

\* -l of a long: two's complement negation
NegLong(l) == Inc([i \in 1..Len(l) |-> (LimbBase - 1) - l[i]], 1)

\* l < 0 of a long
IsNegLong(l) == l[4] >= LimbHalf

LONG_MAX == <<LimbBase - 1, LimbBase - 1, LimbBase - 1, LimbHalf - 1>>
LONG_MIN == <<0, 0, 0, LimbHalf>>

----------------------------------------------------------------------------
(* The shift transform *)

\* crypt_char_base without the conversion of a negative shift
crypt_char_base_raw(sh, base, c) ==
    LET s == CRem(sh, ALPHABET_SIZE)
        cur_offset == c - base
        tgt_offset == CRem(cur_offset + s, ALPHABET_SIZE)
    IN  base + tgt_offset

\* base + tgt_offset lies in 'A'..'z', so returning it as a char keeps its value
crypt_char_base(sh, base, c) ==
    LET s == CRem(CRem(sh, ALPHABET_SIZE) + ALPHABET_SIZE, ALPHABET_SIZE)
        cur_offset == c - base
        tgt_offset == CRem(cur_offset + s, ALPHABET_SIZE)
    IN  base + tgt_offset

\* crypt_char with the upper end of the lowercase test left out
crypt_char_open(sh, c) ==
    IF c >= 65 /\ c <= 90 THEN crypt_char_base(sh, 65, c)
    ELSE IF c >= 97 THEN crypt_char_base(sh, 97, c)
    ELSE c

crypt_char(sh, c) ==
    IF c >= 65 /\ c <= 90 THEN crypt_char_base(sh, 65, c)
    ELSE IF c >= 97 /\ c <= 122 THEN crypt_char_base(sh, 97, c)
    ELSE c

----------------------------------------------------------------------------
(* Key parsing.  A string is a sequence of one-character strings. *)

Digits == {"0", "1", "2", "3", "4", "5", "6", "7", "8", "9"}

DigitVal(ch) ==
    CASE ch = "0" -> 0 [] ch = "1" -> 1 [] ch = "2" -> 2 [] ch = "3" -> 3
      [] ch = "4" -> 4 [] ch = "5" -> 5 [] ch = "6" -> 6 [] ch = "7" -> 7
      [] ch = "8" -> 8 [] ch = "9" -> 9

\* isspace() of the characters key strings are built from
IsSpace(ch) == ch = " "

\* first index >= p of str that does not satisfy isspace, Len(str) + 1 if none
RECURSIVE SkipSpace(_, _)
SkipSpace(str, p) ==
    IF p <= Len(str) /\ IsSpace(str[p]) THEN SkipSpace(str, p + 1) ELSE p

\* first index >= p of str that is no decimal digit, Len(str) + 1 if none
RECURSIVE SkipDigits(_, _)
SkipDigits(str, p) ==
    IF p <= Len(str) /\ str[p] \in Digits THEN SkipDigits(str, p + 1) ELSE p

\* mag * 10 + d on four limbs; ovf is set once the result needs a fifth limb
MulAdd10(acc, d) ==
    LET v1 == acc.mag[1] * 10 + d
        v2 == acc.mag[2] * 10 + (v1 \div LimbBase)
        v3 == acc.mag[3] * 10 + (v2 \div LimbBase)
        v4 == acc.mag[4] * 10 + (v3 \div LimbBase)
    IN  [mag |-> <<v1 % LimbBase, v2 % LimbBase, v3 % LimbBase, v4 % LimbBase>>,
         ovf |-> acc.ovf \/ v4 \div LimbBase > 0]

\* the magnitude of the digits str[p..q-1]
RECURSIVE Accumulate(_, _, _, _)
Accumulate(str, p, q, acc) ==
    IF p >= q THEN acc
    ELSE Accumulate(str, p + 1, q, MulAdd10(acc, DigitVal(str[p])))

\* strtol(str, &endptr, 10): val is the result, endpos the index endptr points
\* to (Len(str) + 1 is the terminating NUL), erange whether errno is ERANGE
strtol(str) ==
    LET p0 == SkipSpace(str, 1)
        signed == p0 <= Len(str) /\ str[p0] \in {"-", "+"}
        neg == signed /\ str[p0] = "-"
        p1 == IF signed THEN p0 + 1 ELSE p0
        q == SkipDigits(str, p1)
        acc == Accumulate(str, p1, q, [mag |-> <<0, 0, 0, 0>>, ovf |-> FALSE])
    IN  IF q = p1
        THEN [val |-> <<0, 0, 0, 0>>, endpos |-> 1, erange |-> FALSE]
        ELSE IF neg
        THEN IF acc.ovf \/ (IsNegLong(acc.mag) /\ acc.mag # LONG_MIN)
             THEN [val |-> LONG_MIN, endpos |-> q, erange |-> TRUE]
             ELSE [val |-> NegLong(acc.mag), endpos |-> q, erange |-> FALSE]
        ELSE IF acc.ovf \/ IsNegLong(acc.mag)
             THEN [val |-> LONG_MAX, endpos |-> q, erange |-> TRUE]
             ELSE [val |-> acc.mag, endpos |-> q, erange |-> FALSE]

parse_positive_long(arg) ==
    LET r == strtol(arg)
    IN  IF r.endpos <= Len(arg) THEN FromInt(-1)
        ELSE IF (r.val = LONG_MIN \/ r.val = LONG_MAX) /\ r.erange THEN FromInt(-2)
        ELSE IF IsNegLong(r.val) THEN FromInt(-3)
        ELSE r.val

----------------------------------------------------------------------------
(* Inputs *)

\* argv[optind] == NULL: a sequence no message equals (no byte is -1)
NoMsg == <<-1>>
\* the buffer pointer before calloc, and after a failed calloc
NoBuf == -1
\* the exit status while the process has not exited
Running == -1
EOF == -1

\* byte values the inputs are built from: NUL, the letters at both ends of
\* each alphabet, the byte after 'z', and the top of the byte range
Bytes == {0, 65, 90, 97, 122, 123, 255}

RECURSIVE SeqsUpTo(_, _)
SeqsUpTo(S, n) ==
    IF n = 0 THEN {<<>>}
    ELSE LET shorter == SeqsUpTo(S, n - 1)
         IN  shorter \cup {Append(q, x) : q \in {r \in shorter : Len(r) = n - 1}, x \in S}

\* a command-line argument is a C string: it holds no NUL
Messages == SeqsUpTo(Bytes \ {0}, MaxLen)
Inputs == SeqsUpTo(Bytes, MaxLen)

KeyAlphabet == {"6", "-", " ", "x"}

KeyStrings ==
    SeqsUpTo(KeyAlphabet, MaxKeyLen) \cup
    { <<"0">>, <<"1">>, <<"+", "6">>, <<"2", "5">>, <<"2", "6">>, <<"2", "7">>, <<"-", "0">>,
      <<"2", "1", "4", "7", "4", "8", "3", "6", "4", "7">>,
      <<"2", "1", "4", "7", "4", "8", "3", "6", "4", "8">>,
      <<"4", "2", "9", "4", "9", "6", "7", "2", "9", "6">>,
      <<"9", "2", "2", "3", "3", "7", "2", "0", "3", "6",
        "8", "5", "4", "7", "7", "5", "8", "0", "7">>,
      <<"9", "2", "2", "3", "3", "7", "2", "0", "3", "6",
        "8", "5", "4", "7", "7", "5", "8", "0", "8">>,
      <<"-", "9", "2", "2", "3", "3", "7", "2", "0", "3", "6",
        "8", "5", "4", "7", "7", "5", "8", "0", "8">>,
      <<"9", "9", "9", "9", "9", "9", "9", "9", "9", "9",
        "9", "9", "9", "9", "9", "9", "9", "9", "9", "9">> }

Shifts == (-MaxShift..MaxShift) \cup {INT_MIN, INT_MIN + 1, INT_MAX - 1, INT_MAX}

CharValues(sgn) == {ToChar(b, sgn) : b \in 0..255}

----------------------------------------------------------------------------
(* main of src/main.c *)

ProgramInit ==
    /\ charSigned \in BOOLEAN
    /\ mode = "cm_unset"
    /\ shift = <<0, 0, 0, 0>>
    /\ key = <<0, 0, 0, 0>>
    /\ keystr = <<>>
    /\ nmode = 0
    /\ message = NoMsg
    /\ stdin_data = <<>>
    /\ nread = 0
    /\ in_char = 0
    /\ idx = 0
    /\ puts = <<>>
    /\ out = <<>>
    /\ rerr = FALSE
    /\ werr = FALSE
    /\ nfault = 0
    /\ usage_called = FALSE
    /\ status = Running
    /\ crypted = NoBuf
    /\ writes = {}

HarnessIdle ==
    /\ h_pc = "idle"
    /\ h_shift = 0
    /\ h_c = 0
    /\ h_enc = 0
    /\ h_dec = 0

Init == pc = "getopt" /\ ProgramInit /\ HarnessIdle

harnessVars == <<h_pc, h_shift, h_c, h_enc, h_dec>>
ioVars == <<stdin_data, nread, in_char, idx, puts, out, rerr, werr, nfault>>
bufVars == <<crypted, writes>>

\* usage(): prints the usage text on stderr and exits with status 1
usage ==
    /\ usage_called' = TRUE
    /\ status' = 1
    /\ pc' = "exit"

\* GetoptMode without the test that no mode was set before: the last option wins
GetoptMode_last(m, arg) ==
    /\ pc = "getopt"
    /\ nmode' = nmode + 1
    /\ mode' = m
    /\ shift' = parse_positive_long(arg)
    /\ key' = parse_positive_long(arg)
    /\ keystr' = arg
    /\ UNCHANGED <<pc, usage_called, status>>
    /\ UNCHANGED <<charSigned, message, ioVars, bufVars, harnessVars>>

\* getopt returns 'd' or 'e' with optarg = arg
GetoptMode(m, arg) ==
    /\ pc = "getopt"
    /\ nmode' = nmode + 1
    /\ IF mode # "cm_unset"
       THEN /\ usage
            /\ UNCHANGED <<mode, shift, key, keystr>>
       ELSE /\ mode' = m
            /\ shift' = parse_positive_long(arg)
            /\ key' = parse_positive_long(arg)
            /\ keystr' = arg
            /\ UNCHANGED <<pc, usage_called, status>>
    /\ UNCHANGED <<charSigned, message, ioVars, bufVars, harnessVars>>

GetoptD == \E arg \in KeyStrings : GetoptMode("cm_decrypt", arg)
GetoptE == \E arg \in KeyStrings : GetoptMode("cm_encrypt", arg)

\* getopt returns 'h', or '?' for an unknown option or a missing argument
GetoptHelp ==
    /\ pc = "getopt"
    /\ usage
    /\ UNCHANGED <<charSigned, mode, shift, key, keystr, nmode, message,
                   ioVars, bufVars, harnessVars>>

\* getopt returns -1: argv[optind] is the message, or NULL
GetoptEnd ==
    /\ pc = "getopt"
    /\ pc' = "check_mode"
    /\ message' \in Messages \cup {NoMsg}
    /\ UNCHANGED <<charSigned, mode, shift, key, keystr, nmode, usage_called,
                   status, ioVars, bufVars, harnessVars>>

CheckMode ==
    /\ pc = "check_mode"
    /\ IF mode = "cm_unset"
       THEN usage
       ELSE pc' = "check_shift" /\ UNCHANGED <<usage_called, status>>
    /\ UNCHANGED <<charSigned, mode, shift, key, keystr, nmode, message,
                   ioVars, bufVars, harnessVars>>

CheckShift ==
    /\ pc = "check_shift"
    /\ IF IsNegLong(shift)
       THEN usage
       ELSE pc' = "checked" /\ UNCHANGED <<usage_called, status>>
    /\ UNCHANGED <<charSigned, mode, shift, key, keystr, nmode, message,
                   ioVars, bufVars, harnessVars>>

\* fputc(c, stdout): the byte (unsigned char) c is handed to the stream, which
\* accepts it or fails
fputc(c) ==
    \/ /\ out' = Append(out, ToByte(c))
       /\ UNCHANGED <<werr, nfault>>
    \/ /\ nfault < MaxFaults
       /\ werr' = TRUE
       /\ nfault' = nfault + 1
       /\ UNCHANGED out

\* the effective shift is the key for encrypt and its negation for decrypt;
\* the message, or standard input when there is none, goes to the core
Dispatch ==
    /\ pc = "checked"
    /\ shift' = IF mode = "cm_encrypt" THEN shift ELSE NegLong(shift)
    /\ IF message = NoMsg
       THEN pc' = "stream_read" /\ stdin_data' \in Inputs
       ELSE pc' = "str_loop" /\ UNCHANGED stdin_data
    /\ idx' = 0
    /\ UNCHANGED <<charSigned, mode, key, keystr, nmode, message, nread, in_char,
                   puts, out, rerr, werr, nfault, usage_called, status, bufVars,
                   harnessVars>>

\* one iteration of crypt_str's loop; the long shift was narrowed to the int
\* parameter, and in[i] is a char
StrPut ==
    /\ pc = "str_loop"
    /\ idx < Len(message)
    /\ LET c == crypt_char(ToInt(shift), ToChar(message[idx + 1], charSigned))
       IN  /\ puts' = Append(puts, ToByte(c))
           /\ fputc(c)
    /\ idx' = idx + 1
    /\ UNCHANGED <<pc, charSigned, mode, shift, key, keystr, nmode, message,
                   stdin_data, nread, in_char, rerr, usage_called, status,
                   bufVars, harnessVars>>

StrDone ==
    /\ pc = "str_loop"
    /\ idx >= Len(message)
    /\ pc' = "tty"
    /\ UNCHANGED <<charSigned, mode, shift, key, keystr, nmode, message,
                   usage_called, status, ioVars, bufVars, harnessVars>>

\* in_char declared char instead of int
StoreInChar_char(v) == ToChar(v, charSigned)

\* what the int in_char holds after in_char = fgetc(in)
StoreInChar(v) == v

\* a loop that consumes the next byte without writing the one it holds
StreamGot_ahead(v) ==
    /\ in_char' = StoreInChar(v)
    /\ pc' = IF StoreInChar(v) # EOF THEN "stream_read" ELSE "tty"

\* in_char = fgetc(in), and the loop test in_char != EOF
StreamGot(v) ==
    /\ in_char' = StoreInChar(v)
    /\ pc' = IF StoreInChar(v) # EOF THEN "stream_write" ELSE "tty"

StreamRead ==
    /\ pc = "stream_read"
    /\ \/ /\ nread < Len(stdin_data)
          /\ StreamGot(stdin_data[nread + 1])
          /\ nread' = nread + 1
          /\ UNCHANGED <<rerr, nfault>>
       \/ /\ nread = Len(stdin_data)
          /\ StreamGot(EOF)
          /\ UNCHANGED <<nread, rerr, nfault>>
       \/ /\ nfault < MaxFaults
          /\ StreamGot(EOF)
          /\ rerr' = TRUE
          /\ nfault' = nfault + 1
          /\ UNCHANGED nread
    /\ UNCHANGED <<charSigned, mode, shift, key, keystr, nmode, message,
                   stdin_data, idx, puts, out, werr, usage_called, status,
                   bufVars, harnessVars>>

\* the body of crypt_stream's loop: in_char is narrowed to crypt_char's char
StreamWrite ==
    /\ pc = "stream_write"
    /\ LET c == crypt_char(ToInt(shift), ToChar(in_char, charSigned))
       IN  /\ puts' = Append(puts, ToByte(c))
           /\ fputc(c)
    /\ pc' = "stream_read"
    /\ UNCHANGED <<charSigned, mode, shift, key, keystr, nmode, message,
                   stdin_data, nread, in_char, idx, rerr, usage_called, status,
                   bufVars, harnessVars>>

\* the newline for a terminal, and return 0
Finish ==
    /\ pc = "tty"
    /\ \E isatty \in BOOLEAN :
          IF isatty THEN fputc(10) ELSE UNCHANGED <<out, werr, nfault>>
    /\ status' = 0
    /\ pc' = "exit"
    /\ UNCHANGED <<charSigned, mode, shift, key, keystr, nmode, message,
                   stdin_data, nread, in_char, idx, puts, rerr, usage_called,
                   bufVars, harnessVars>>

Next ==
    \/ GetoptD
    \/ GetoptE
    \/ GetoptHelp
    \/ GetoptEnd
    \/ CheckMode
    \/ CheckShift
    \/ Dispatch
    \/ StrPut
    \/ StrDone
    \/ StreamRead
    \/ StreamWrite
    \/ Finish

Spec == Init /\ [][Next]_vars

----------------------------------------------------------------------------
(* The transform on its own: one char through crypt_char with shift s, and the
   result through crypt_char with -s, the negation taken on main's long and
   narrowed to the int parameter as in main's calls *)

InitChar ==
    /\ pc = "idle"
    /\ ProgramInit
    /\ h_pc = "start"
    /\ h_shift \in Shifts
    /\ h_c \in CharValues(charSigned)
    /\ h_enc = 0
    /\ h_dec = 0

programVars == <<pc, charSigned, mode, shift, key, keystr, nmode, message,
                 ioVars, usage_called, status, bufVars>>

Encrypt ==
    /\ h_pc = "start"
    /\ h_enc' = crypt_char(h_shift, h_c)
    /\ h_pc' = "enc"
    /\ UNCHANGED <<h_shift, h_c, h_dec, programVars>>

Decrypt ==
    /\ h_pc = "enc"
    /\ h_dec' = crypt_char(ToInt(NegLong(FromInt(h_shift))), h_enc)
    /\ h_pc' = "dec"
    /\ UNCHANGED <<h_shift, h_c, h_enc, programVars>>

NextChar ==
    \/ Encrypt
    \/ Decrypt

SpecChar == InitChar /\ [][NextChar]_vars

----------------------------------------------------------------------------
(* main and crypt_str of src/unnamed/part_000, which crypts the message into a
   heap buffer and prints it.  This variant writes its error messages and the
   usage text to standard output with printf, so they are part of out.  Texts
   are sequences of bytes.  Here puts holds the bytes stored to the buffer. *)

\* argv[0], the name the program is run as: "./caesar"
Prog ==
    <<46, 47, 99, 97, 101, 115, 97, 114>>

\* "usage: "
UsageHead ==
    <<117, 115, 97, 103, 101, 58, 32>>

\* the usage text after the program name, from " [-h] (-d key | -e key) <msg>" on
UsageTail ==
    <<32, 91, 45, 104, 93, 32, 40, 45, 100, 32, 107, 101, 121, 32, 124, 32,
       45, 101, 32, 107, 101, 121, 41, 32, 60, 109, 115, 103, 62, 10, 10, 69,
       110, 99, 114, 121, 112, 116, 32, 111, 114, 32, 100, 101, 99, 114, 121, 112,
       116, 32, 116, 104, 101, 32, 115, 117, 112, 112, 108, 105, 101, 100, 32, 109,
       101, 115, 115, 97, 103, 101, 32, 119, 105, 116, 104, 32, 97, 32, 103, 105,
       118, 101, 110, 32, 107, 101, 121, 46, 32, 84, 104, 101, 10, 107, 101, 121,
       32, 115, 104, 111, 117, 108, 100, 32, 98, 101, 32, 97, 32, 112, 111, 115,
       105, 116, 105, 118, 101, 32, 105, 110, 116, 101, 103, 101, 114, 46, 32, 84,
       104, 105, 115, 32, 105, 110, 116, 101, 103, 101, 114, 32, 105, 115, 32, 117,
       115, 101, 100, 32, 116, 111, 32, 101, 105, 116, 104, 101, 114, 10, 114, 105,
       103, 104, 116, 45, 115, 104, 105, 102, 116, 32, 40, 101, 110, 99, 114, 121,
       112, 116, 41, 32, 111, 114, 32, 108, 101, 102, 116, 45, 115, 104, 105, 102,
       116, 32, 40, 100, 101, 99, 114, 121, 112, 116, 41, 32, 116, 104, 101, 32,
       65, 83, 67, 73, 73, 32, 99, 104, 97, 114, 97, 99, 116, 101, 114, 115,
       10, 105, 110, 32, 116, 104, 101, 32, 109, 101, 115, 115, 97, 103, 101, 46,
       10, 10, 65, 110, 121, 32, 110, 111, 110, 45, 65, 83, 67, 73, 73, 32,
       99, 104, 97, 114, 97, 99, 116, 101, 114, 115, 32, 105, 110, 32, 116, 104,
       101, 32, 109, 101, 115, 115, 97, 103, 101, 32, 97, 114, 101, 32, 108, 101,
       102, 116, 32, 117, 110, 99, 104, 97, 110, 103, 101, 100, 46, 32, 84, 104,
       101, 10, 101, 110, 99, 114, 121, 112, 116, 101, 100, 32, 111, 114, 32, 100,
       101, 99, 114, 121, 112, 116, 101, 100, 32, 109, 101, 115, 115, 97, 103, 101,
       32, 105, 115, 32, 119, 114, 105, 116, 116, 101, 110, 32, 116, 111, 32, 115,
       116, 97, 110, 100, 97, 114, 100, 32, 111, 117, 116, 112, 117, 116, 46, 10,
       10, 45, 104, 32, 32, 32, 68, 105, 115, 112, 108, 97, 121, 32, 112, 114,
       111, 103, 114, 97, 109, 32, 117, 115, 97, 103, 101, 10, 45, 100, 32, 32,
       32, 68, 101, 99, 114, 121, 112, 116, 32, 109, 101, 115, 115, 97, 103, 101,
       32, 117, 115, 105, 110, 103, 32, 116, 104, 101, 32, 103, 105, 118, 101, 110,
       32, 107, 101, 121, 10, 45, 101, 32, 32, 32, 69, 110, 99, 114, 121, 112,
       116, 32, 109, 101, 115, 115, 97, 103, 101, 32, 117, 115, 105, 110, 103, 32,
       116, 104, 101, 32, 103, 105, 118, 101, 110, 32, 107, 101, 121, 10, 109, 115,
       103, 32, 32, 65, 83, 67, 73, 73, 32, 116, 101, 120, 116, 32, 116, 111,
       32, 101, 110, 99, 114, 121, 112, 116, 32, 111, 114, 32, 100, 101, 99, 114,
       121, 112, 116, 10>>

\* ": only -d or -e may be specified\n"
MsgOnlyOne ==
    <<58, 32, 111, 110, 108, 121, 32, 45, 100, 32, 111, 114, 32, 45, 101, 32,
       109, 97, 121, 32, 98, 101, 32, 115, 112, 101, 99, 105, 102, 105, 101, 100,
       10>>

\* ": either -d or -e are required\n"
MsgRequired ==
    <<58, 32, 101, 105, 116, 104, 101, 114, 32, 45, 100, 32, 111, 114, 32, 45,
       101, 32, 97, 114, 101, 32, 114, 101, 113, 117, 105, 114, 101, 100, 10>>

\* ": key must be a positive base 10 integer\n"
MsgKey ==
    <<58, 32, 107, 101, 121, 32, 109, 117, 115, 116, 32, 98, 101, 32, 97, 32,
       112, 111, 115, 105, 116, 105, 118, 101, 32, 98, 97, 115, 101, 32, 49, 48,
       32, 105, 110, 116, 101, 103, 101, 114, 10>>

\* ": missing required argument: msg\n"
MsgMissing ==
    <<58, 32, 109, 105, 115, 115, 105, 110, 103, 32, 114, 101, 113, 117, 105, 114,
       101, 100, 32, 97, 114, 103, 117, 109, 101, 110, 116, 58, 32, 109, 115, 103,
       10>>

\* ": cannot allocate "
MsgAllocHead ==
    <<58, 32, 99, 97, 110, 110, 111, 116, 32, 97, 108, 108, 111, 99, 97, 116,
       101, 32>>

\* " bytes for output message. aborting.\n"
MsgAllocTail ==
    <<32, 98, 121, 116, 101, 115, 32, 102, 111, 114, 32, 111, 117, 116, 112, 117,
       116, 32, 109, 101, 115, 115, 97, 103, 101, 46, 32, 97, 98, 111, 114, 116,
       105, 110, 103, 46, 10>>

\* printf's %d of an int n >= 0: its decimal digits
RECURSIVE FormatInt(_)
FormatInt(n) ==
    IF n < 10 THEN <<48 + n>>
    ELSE Append(FormatInt(n \div 10), 48 + (n % 10))

\* usage() of part_000, entered after text was printed on standard output:
\* prints the usage text on standard output and exits with status 1
BufUsage(text) ==
    /\ out' = out \o text \o UsageHead \o Prog \o UsageTail
    /\ usage_called' = TRUE
    /\ status' = 1
    /\ pc' = "exit"

bufIoRest == <<stdin_data, nread, in_char, idx, puts, rerr, werr, nfault>>

\* getopt returns 'd' or 'e' with optarg = arg
BufGetoptMode(m, arg) ==
    /\ pc = "getopt"
    /\ nmode' = nmode + 1
    /\ IF mode # "cm_unset"
       THEN /\ BufUsage(Prog \o MsgOnlyOne)
            /\ UNCHANGED <<mode, shift, key, keystr>>
       ELSE /\ mode' = m
            /\ shift' = parse_positive_long(arg)
            /\ key' = parse_positive_long(arg)
            /\ keystr' = arg
            /\ UNCHANGED <<pc, usage_called, status, out>>
    /\ UNCHANGED <<charSigned, message, bufIoRest, bufVars, harnessVars>>

BufGetoptD == \E arg \in KeyStrings : BufGetoptMode("cm_decrypt", arg)
BufGetoptE == \E arg \in KeyStrings : BufGetoptMode("cm_encrypt", arg)

\* getopt returns 'h', or '?' for an unknown option or a missing argument
BufGetoptHelp ==
    /\ pc = "getopt"
    /\ BufUsage(<<>>)
    /\ UNCHANGED <<charSigned, mode, shift, key, keystr, nmode, message,
                   bufIoRest, bufVars, harnessVars>>

\* getopt returns -1: argv[optind] is the message, or NULL
BufGetoptEnd ==
    /\ pc = "getopt"
    /\ pc' = "check_mode"
    /\ message' \in Messages \cup {NoMsg}
    /\ UNCHANGED <<charSigned, mode, shift, key, keystr, nmode, usage_called,
                   status, ioVars, bufVars, harnessVars>>

BufCheckMode ==
    /\ pc = "check_mode"
    /\ IF mode = "cm_unset"
       THEN BufUsage(Prog \o MsgRequired)
       ELSE pc' = "check_shift" /\ UNCHANGED <<usage_called, status, out>>
    /\ UNCHANGED <<charSigned, mode, shift, key, keystr, nmode, message,
                   bufIoRest, bufVars, harnessVars>>

BufCheckShift ==
    /\ pc = "check_shift"
    /\ IF IsNegLong(shift)
       THEN BufUsage(Prog \o MsgKey)
       ELSE pc' = "checked" /\ UNCHANGED <<usage_called, status, out>>
    /\ UNCHANGED <<charSigned, mode, shift, key, keystr, nmode, message,
                   bufIoRest, bufVars, harnessVars>>

BufCheckMsg ==
    /\ pc = "checked"
    /\ IF message = NoMsg
       THEN BufUsage(Prog \o MsgMissing)
       ELSE pc' = "alloc" /\ UNCHANGED <<usage_called, status, out>>
    /\ UNCHANGED <<charSigned, mode, shift, key, keystr, nmode, message,
                   bufIoRest, bufVars, harnessVars>>

\* crypted = calloc(1, message_len), and the NULL check, which prints the
\* number of bytes on standard output and returns 2
BufAlloc ==
    /\ pc = "alloc"
    /\ \/ /\ crypted' = Len(message)
          /\ pc' = "allocated"
          /\ UNCHANGED <<status, out>>
       \/ /\ crypted' = NoBuf
          /\ out' = out \o Prog \o MsgAllocHead \o FormatInt(Len(message))
                        \o MsgAllocTail
          /\ status' = 2
          /\ pc' = "exit"
    /\ UNCHANGED <<charSigned, mode, shift, key, keystr, nmode, message,
                   bufIoRest, writes, usage_called, harnessVars>>

BufDispatch ==
    /\ pc = "allocated"
    /\ shift' = IF mode = "cm_encrypt" THEN shift ELSE NegLong(shift)
    /\ idx' = 0
    /\ pc' = "buf_loop"
    /\ UNCHANGED <<charSigned, mode, key, keystr, nmode, message, stdin_data,
                   nread, in_char, puts, out, rerr, werr, nfault, usage_called,
                   status, bufVars, harnessVars>>

\* out[i] = crypt_char(shift, in[i])
BufStore ==
    /\ pc = "buf_loop"
    /\ idx < Len(message)
    /\ puts' = Append(puts, ToByte(crypt_char(ToInt(shift),
                                             ToChar(message[idx + 1], charSigned))))
    /\ writes' = writes \cup {idx}
    /\ idx' = idx + 1
    /\ UNCHANGED <<pc, charSigned, mode, shift, key, keystr, nmode, message,
                   stdin_data, nread, in_char, out, rerr, werr, nfault,
                   usage_called, status, crypted, harnessVars>>

\* out[len] = '\0'.  A store past the end of the allocation is undefined: it
\* lands in the bytes after the buffer and the run goes on, or the run is
\* stopped (a hardened allocator, a sanitizer)
BufTerminate ==
    /\ pc = "buf_loop"
    /\ idx >= Len(message)
    /\ writes' = writes \cup {Len(message)}
    /\ IF Len(message) < crypted
       THEN pc' = "print" /\ UNCHANGED status
       ELSE \/ pc' = "print" /\ UNCHANGED status
            \/ pc' = "exit" /\ status' = 128 + 6
    /\ UNCHANGED <<charSigned, mode, shift, key, keystr, nmode, message,
                   ioVars, crypted, usage_called, harnessVars>>

\* printf("%s\n", crypted), free and return 0
BufPrint ==
    /\ pc = "print"
    /\ out' = out \o puts \o <<10>>
    /\ status' = 0
    /\ pc' = "exit"
    /\ UNCHANGED <<charSigned, mode, shift, key, keystr, nmode, message,
                   stdin_data, nread, in_char, idx, puts, rerr, werr, nfault,
                   usage_called, bufVars, harnessVars>>

NextBuf ==
    \/ BufGetoptD
    \/ BufGetoptE
    \/ BufGetoptHelp
    \/ BufGetoptEnd
    \/ BufCheckMode
    \/ BufCheckShift
    \/ BufCheckMsg
    \/ BufAlloc
    \/ BufDispatch
    \/ BufStore
    \/ BufTerminate
    \/ BufPrint

SpecBuf == Init /\ [][NextBuf]_vars

----------------------------------------------------------------------------
(* What the claims are stated with *)

IsUpper(c) == c >= 65 /\ c <= 90
IsLower(c) == c >= 97 /\ c <= 122
IsLetter(c) == IsUpper(c) \/ IsLower(c)

\* the value of a non-negative long modulo m
LongMod(l, m) ==
    LET r4 == l[4] % m
        r3 == (r4 * LimbBase + l[3]) % m
        r2 == (r3 * LimbBase + l[2]) % m
    IN  (r2 * LimbBase + l[1]) % m

\* the bytes the core is applied to
Source == IF message = NoMsg THEN stdin_data ELSE message

\* the byte the program writes for input byte b when the core gets shift sh
Crypted(sh, b) == ToByte(crypt_char(sh, ToChar(b, charSigned)))

\* positions of main at which the core has been invoked
CorePcs == {"str_loop", "stream_read", "stream_write", "tty"}
CoreRan == pc \in CorePcs \/ status = 0 \/ puts # <<>>

\* the key string is an optionally signed decimal integer (after the white
\* space strtol skips), in the range of long, and not negative
IsBase10Integer(str) ==
    LET p0 == SkipSpace(str, 1)
        p1 == IF p0 <= Len(str) /\ str[p0] \in {"-", "+"} THEN p0 + 1 ELSE p0
    IN  p1 <= Len(str) /\ \A i \in p1..Len(str) : str[i] \in Digits
ValidKey(str) ==
    /\ IsBase10Integer(str)
    /\ ~strtol(str).erange
    /\ ~IsNegLong(strtol(str).val)

----------------------------------------------------------------------------
(* The claims *)

\* C1: for every letter c and every int shift s, crypt_char with shift s and
\* then crypt_char with -s (negated as main negates it) gives back c.
C1_RoundTrip == (h_pc = "dec" /\ IsLetter(h_c)) => h_dec = h_c

\* C2: a byte that is no letter is a fixed point of crypt_char for every shift,
\* and comes out of the stdin path (fgetc, narrowing to char, crypt_char,
\* fputc) unchanged, 0x00 and 0x80..0xFF included.
C2_NonLettersFixed ==
    /\ message = NoMsg =>
          \A i \in 1..Len(puts) :
             ~IsLetter(stdin_data[i]) =>
                /\ puts[i] = stdin_data[i]
                /\ nfault = 0 => out[i] = stdin_data[i]
    \* every byte value under the effective shift, once per run of crypt_stream
    /\ (pc = "stream_read" /\ stdin_data = <<>>) =>
          \A b \in 0..255 :
             ~IsLetter(b) =>
                /\ crypt_char(ToInt(shift), ToChar(b, charSigned)) = ToChar(b, charSigned)
                /\ Crypted(ToInt(shift), b) = b

C2_Witness ==
    /\ message = NoMsg
    /\ charSigned
    /\ ToInt(shift) % ALPHABET_SIZE # 0
    /\ stdin_data = <<255, 0>>
    /\ out = <<255, 0>>

\* C3: for every uppercase letter c and every int shift s, crypt_char(s, c) is
\* the uppercase letter 'A' + (c - 'A' + (s mod 26)) mod 26 with the
\* non-negative modulus, which is crypt_char(s mod 26, c); likewise for
\* lowercase with 'a'; shifts 0 and 26 leave every byte as it is.
C3_ShiftModulo ==
    h_pc # "start" =>
       /\ IsUpper(h_c) =>
             /\ IsUpper(h_enc)
             /\ h_enc = 65 + ((h_c - 65 + (h_shift % 26)) % 26)
             /\ h_enc = crypt_char(h_shift % 26, h_c)
       /\ IsLower(h_c) =>
             /\ IsLower(h_enc)
             /\ h_enc = 97 + ((h_c - 97 + (h_shift % 26)) % 26)
             /\ h_enc = crypt_char(h_shift % 26, h_c)
       /\ h_shift \in {0, 26} => h_enc = h_c

C3_Witness == h_pc = "enc" /\ h_shift = INT_MIN /\ h_c = 90 /\ h_enc = 66

\* C4: for every accepted key k and either mode, the output is the output the
\* program gives for the key k mod 26, keys beyond the range of int included.
C4_KeyWrap ==
    (pc = "tty" /\ nfault = 0 /\ ValidKey(keystr)) =>
       LET km == LongMod(key, ALPHABET_SIZE)
           sh == IF mode = "cm_encrypt" THEN km ELSE 0 - km
       IN  /\ Len(out) = Len(Source)
           /\ \A i \in 1..Len(out) : out[i] = Crypted(sh, Source[i])

\* C5: the core is invoked only for a key string that is a base-10 integer in
\* range and not negative; any other key string ends in usage and a non-zero
\* status with no transformed byte written.
C5_KeyGate ==
    /\ CoreRan => ValidKey(keystr)
    /\ (pc = "exit" /\ nmode = 1 /\ ~ValidKey(keystr)) =>
          usage_called /\ status # 0 /\ puts = <<>>

\* C6: a failed fputc or fgetc during the core ends in a non-zero exit status;
\* status 0 means every input byte was read and its crypted byte written.
\* Stated of the step that follows the core's return, for an accepted key.
C6_IoSurfaced ==
    [][(pc = "tty" /\ ValidKey(keystr) /\ status' = 0) =>
          (~werr /\ ~rerr /\ Len(out) = Len(Source))]_vars

\* C7: the core is invoked only when exactly one mode option was seen; with
\* none, or with a second one, the program ends through usage with a non-zero
\* status and no byte written; and mode, once set, never changes.
C7_Inv ==
    /\ CoreRan => nmode = 1 /\ mode # "cm_unset"
    /\ nmode >= 2 => pc = "exit"
    /\ (pc = "exit" /\ nmode # 1) =>
          usage_called /\ status = 1 /\ puts = <<>> /\ out = <<>>
\* C7 as a property: the invariant above in every state, and mode is never
\* changed once it has left cm_unset
C7_ModeExclusive ==
    /\ []C7_Inv
    /\ [][mode # "cm_unset" => mode' = mode]_vars

C7_Witness == nmode = 2 /\ usage_called /\ status = 1 /\ mode = "cm_encrypt"

\* C8: crypt_stream hands the crypted form of a byte to the sink before it
\* consumes the next byte: bytes read exceed bytes handed over by at most one,
\* and reads and writes alternate.
C8_Inv ==
    message = NoMsg =>
       /\ nread - Len(puts) \in {0, 1}
       /\ pc = "stream_read" => nread = Len(puts)
       /\ pc = "stream_write" => nread = Len(puts) + 1
\* C8 as a property: the invariant above in every state, and every read
\* (write) step starts with as many bytes read as handed over (one more)
C8_StreamOrder ==
    /\ []C8_Inv
    /\ [][message = NoMsg =>
             /\ nread' # nread => (nread' = nread + 1 /\ nread = Len(puts))
             /\ puts' # puts => (Len(puts') = Len(puts) + 1 /\ nread = Len(puts) + 1)]_vars

C8_Witness ==
    /\ message = NoMsg
    /\ pc = "stream_write"
    /\ nread = 2
    /\ Len(puts) = 1
    /\ Len(out) = 1

\* C9: for an input of N bytes (0x00 and 0xFF included) crypt_stream ends with
\* exactly N bytes written, byte i being crypt_char(shift, input byte i);
\* likewise crypt_str for a message of length N.  Stated of runs in which no
\* read or write fails.
C9_LengthPreserved ==
    (pc = "tty" /\ nfault = 0) =>
       /\ nread = (IF message = NoMsg THEN Len(stdin_data) ELSE 0)
       /\ Len(out) = Len(Source)
       /\ \A i \in 1..Len(Source) : out[i] = Crypted(ToInt(shift), Source[i])

C9_Witness ==
    /\ pc = "tty"
    /\ nfault = 0
    /\ message = NoMsg
    /\ charSigned
    /\ stdin_data = <<255, 0>>
    /\ Len(out) = 2

\* C10: with a buffer of strlen(message) bytes, as main allocates it, every
\* index crypt_str stores to (0..len-1 and len) lies inside the buffer.
C10_BufferBounds == ValidKey(keystr) => \A w \in writes : w < crypted

====
